---- MODULE Spec2Model ----
(***************************************************************************)
(* The asynchronous CSV bulk-import pipeline of unite-backend:             *)
(*   CsvService.uploadCsvForProcessing  (services/csvService.ts)           *)
(*   CsvProcessor.pollQueue             (workers/csvProcessor.ts)          *)
(*   CsvService.processCsvFile          (services/csvService.ts)           *)
(*   LeadModel.bulkCreate               (models/mysql/Lead.ts)             *)
(*   S3Service.generateCsvUploadUrl     (services/s3Service.ts)            *)
(* together with the stores they act on: the S3 bucket, the CsvLog         *)
(* collection, the SQS queue and the leads table.                          *)
(***************************************************************************)
EXTENDS Integers, Sequences, FiniteSets, Bags, TLC

----------------------------------------------------------------------------
(* Bounds of the model *)

MaxUploads == 2
NumWorkers == 2
MaxFaults == 3
MaxJointFaults == 1
MaxClock == 1
MaxRows == 3
MaxCallers == 3
MaxBulkCalls == 2

Uploads == 1..MaxUploads
Workers == 1..NumWorkers
Callers == 1..MaxCallers

----------------------------------------------------------------------------
(* Values *)

NULL == "NULL"
NoKey == [ts |-> 0 - 1, name |-> <<>>]
NoBody == [csvLogId |-> 0, s3Key |-> NoKey, userId |-> 0]
NoMsg == [id |-> 0, body |-> NoBody]
NoFile == [mimetype |-> "", size |-> 0, originalname |-> <<>>, buffer |-> [header |-> <<>>, lines |-> <<>>]]

Digits == {"0", "1", "2", "3", "4", "5", "6", "7", "8", "9"}
Whitespace == {" "}

\* uploadCsvForProcessing: 10 * 1024 * 1024
MaxFileSize == 10 * 1024 * 1024

----------------------------------------------------------------------------
(* The row validator: csvRowSchema and the 'data' callback of processCsvFile *)

NameMin == 2
NameMax == 255
PhoneDigitsMin == 1
PhoneDigitsMax == 14
SourceMax == 100

\* /^\+?[1-9]\d{1,14}$/
PhonePattern(p) ==
  LET q == IF Len(p) > 0 /\ p[1] = "+" THEN Tail(p) ELSE p
  IN /\ Len(q) >= 1 + PhoneDigitsMin
     /\ Len(q) <= 1 + PhoneDigitsMax
     /\ q[1] \in Digits \ {"0"}
     /\ \A i \in 2..Len(q) : q[i] \in Digits

\* the top-level domains of the inputs that are on the IANA list Joi consults
Tlds == { <<"i", "o">>, <<"c", "o", "m">> }

\* Joi.string().email(): one "@", a non-empty local part, a domain of at
\* least two non-empty labels, the last of them a registered top-level domain
EmailOk(e) ==
  LET ats == {i \in 1..Len(e) : e[i] = "@"}
  IN /\ Cardinality(ats) = 1
     /\ LET a == CHOOSE i \in ats : TRUE
            dots == {i \in (a+1)..Len(e) : e[i] = "."}
        IN /\ a > 1
           /\ dots # {}
           /\ \A d \in dots : d > a + 1 /\ d < Len(e) /\ (d + 1) \notin dots
           /\ LET last == CHOOSE d \in dots : \A d2 \in dots : d2 <= d
              IN SubSeq(e, last + 1, Len(e)) \in Tlds

KnownFields == {"name", "phone", "email", "source"}

\* lines 110-111: empty optional fields are deleted before validation
Normalize(data) ==
  LET drop == {f \in {"email", "source"} : f \in DOMAIN data /\ data[f] = <<>>}
  IN [f \in (DOMAIN data) \ drop |-> data[f]]

\* csvRowSchema.validate(data, {abortEarly: false, stripUnknown: true}):
\* the violated fields, in schema order
SchemaErrors(d) ==
  LET nameBad == \/ "name" \notin DOMAIN d
                 \/ Len(d["name"]) = 0
                 \/ Len(d["name"]) < NameMin
                 \/ Len(d["name"]) > NameMax
      phoneBad == \/ "phone" \notin DOMAIN d
                  \/ Len(d["phone"]) = 0
                  \/ ~PhonePattern(d["phone"])
      emailBad == "email" \in DOMAIN d /\ ~EmailOk(d["email"])
      sourceBad == "source" \in DOMAIN d /\ Len(d["source"]) > SourceMax
  IN (IF nameBad THEN <<"name">> ELSE <<>>) \o
     (IF phoneBad THEN <<"phone">> ELSE <<>>) \o
     (IF emailBad THEN <<"email">> ELSE <<>>) \o
     (IF sourceBad THEN <<"source">> ELSE <<>>)

StripUnknown(d) == [f \in (DOMAIN d) \cap KnownFields |-> d[f]]

\* csv-parser: the first line names the fields, each later line is a record
\* of the cells it has
CsvParse(content) ==
  [i \in 1..Len(content.lines) |->
     LET line == content.lines[i]
         n == IF Len(line) < Len(content.header) THEN Len(line) ELSE Len(content.header)
     IN [f \in {content.header[k] : k \in 1..n} |->
           line[CHOOSE k \in 1..n : content.header[k] = f]]]

\* mutant: an invalid row is numbered by its place among the invalid rows
RECURSIVE ValidateRowsCountingErrors(_, _, _, _)
ValidateRowsCountingErrors(records, rowNumber, rows, errors) ==
  IF rowNumber > Len(records) THEN [rows |-> rows, errors |-> errors]
  ELSE LET data == Normalize(records[rowNumber])
           error == SchemaErrors(data)
       IN IF error # <<>>
          THEN ValidateRowsCountingErrors(records, rowNumber + 1, rows,
                            Append(errors, [row |-> Len(errors) + 1, data |-> data, error |-> error]))
          ELSE ValidateRowsCountingErrors(records, rowNumber + 1, Append(rows, StripUnknown(data)), errors)

\* the 'data' callback, lines 107-129, over all records in file order
RECURSIVE ValidateRows(_, _, _, _)
ValidateRows(records, rowNumber, rows, errors) ==
  IF rowNumber > Len(records) THEN [rows |-> rows, errors |-> errors]
  ELSE LET data == Normalize(records[rowNumber])
           error == SchemaErrors(data)
       IN IF error # <<>>
          THEN ValidateRows(records, rowNumber + 1, rows,
                            Append(errors, [row |-> rowNumber, data |-> data, error |-> error]))
          ELSE ValidateRows(records, rowNumber + 1, Append(rows, StripUnknown(data)), errors)

ParseAndValidate(content) == ValidateRows(CsvParse(content), 1, <<>>, <<>>)

----------------------------------------------------------------------------
(* S3Service.generateCsvUploadUrl: the storage key *)

RECURSIVE SkipWs(_)
SkipWs(s) == IF s # <<>> /\ Head(s) \in Whitespace THEN SkipWs(Tail(s)) ELSE s

\* fileName.replace(/\s+/g, '_')
RECURSIVE ReplaceWs(_)
ReplaceWs(s) ==
  IF s = <<>> THEN <<>>
  ELSE IF Head(s) \in Whitespace THEN <<"_">> \o ReplaceWs(SkipWs(s))
  ELSE <<Head(s)>> \o ReplaceWs(Tail(s))

\* `csv/${Date.now()}-${fileName.replace(/\s+/g, '_')}`
GenerateCsvKey(fileName, t) == [ts |-> t, name |-> ReplaceWs(fileName)]

----------------------------------------------------------------------------
(* LeadModel.bulkCreate and the leads table *)

\* UNIQUE KEY unique_phone_email (phone, email): a NULL email never conflicts
UniqueConflict(store, row) ==
  \E old \in BagToSet(store) :
     /\ old.phone = row.phone
     /\ row.email # NULL
     /\ old.email # NULL
     /\ old.email = row.email

\* lead => [name, phone, email || null, 'new', source || 'csv_import', null, null]
LeadValues(lead) ==
  [name |-> lead["name"],
   phone |-> lead["phone"],
   email |-> IF "email" \in DOMAIN lead /\ lead["email"] # <<>> THEN lead["email"] ELSE NULL,
   status |-> "new",
   source |-> IF "source" \in DOMAIN lead /\ lead["source"] # <<>> THEN lead["source"] ELSE <<"csv_import">>,
   assigned_to |-> NULL,
   image_url |-> NULL]

\* mutant: REPLACE INTO leads: a row that hits the unique key takes the place
\* of the stored one, and counts twice
RECURSIVE InsertReplace(_, _, _)
InsertReplace(store, values, affected) ==
  IF values = <<>> THEN [store |-> store, affectedRows |-> affected]
  ELSE IF UniqueConflict(store, Head(values))
       THEN LET old == CHOOSE o \in BagToSet(store) :
                          o.phone = Head(values).phone /\ o.email = Head(values).email
            IN InsertReplace((store (-) SetToBag({old})) (+) SetToBag({Head(values)}),
                             Tail(values), affected + 2)
       ELSE InsertReplace(store (+) SetToBag({Head(values)}), Tail(values), affected + 1)

\* INSERT IGNORE INTO leads ... VALUES (...), (...): rows that hit the
\* unique key are skipped, the others added; affectedRows counts the latter.
\* The table is the bag of its rows (the auto-increment id left out)
RECURSIVE InsertIgnore(_, _, _)
InsertIgnore(store, values, affected) ==
  IF values = <<>> THEN [store |-> store, affectedRows |-> affected]
  ELSE IF UniqueConflict(store, Head(values))
       THEN InsertIgnore(store, Tail(values), affected)
       ELSE InsertIgnore(store (+) SetToBag({Head(values)}), Tail(values), affected + 1)

BulkCreate(store, rows) ==
  IF Len(rows) = 0 THEN [store |-> store, affectedRows |-> 0]
  ELSE InsertIgnore(store, [i \in 1..Len(rows) |-> LeadValues(rows[i])], 0)

----------------------------------------------------------------------------
(* Inputs: the files clients upload and the leads already stored *)

Header == <<"name", "phone", "email", "source">>

LineAlice == << <<"A", "l">>, <<"+", "1", "4">>, <<"a", "@", "x", ".", "i", "o">>, <<"w">> >>
LineBad == << <<"B">>, <<"5">>, <<>>, <<>> >>
LineBob == << <<"B", "o">>, <<"1", "5">>, <<>>, <<>> >>

LineCarol == << <<"C", "a">>, <<"1", "5">>, <<"c", "@", "x", ".", "i", "o">>, <<>> >>
LineSpaces == << <<" ", " ">>, <<"1", "6">>, <<>>, <<>> >>
LineNoName == << <<>>, <<"1", "7">>, <<>>, <<>> >>
LineLong == << [i \in 1..(NameMax + 1) |-> "x"], <<"1", "8">>, <<>>, <<>> >>

CsvA == [header |-> Header, lines |-> <<LineAlice, LineBad, LineBob>>]
CsvB == [header |-> Header, lines |-> <<LineAlice>>]

LeadsName == <<"l", " ", "1">>

UploadInputs ==
  { [file |-> [mimetype |-> "text/csv", size |-> 1024, originalname |-> LeadsName, buffer |-> CsvA],
     userId |-> 1],
    [file |-> [mimetype |-> "application/vnd.ms-excel", size |-> MaxFileSize, originalname |-> LeadsName, buffer |-> CsvB],
     userId |-> 2],
    [file |-> [mimetype |-> "application/json", size |-> 1024, originalname |-> LeadsName, buffer |-> CsvA],
     userId |-> 1],
    [file |-> [mimetype |-> "text/csv", size |-> MaxFileSize + 1, originalname |-> LeadsName, buffer |-> CsvA],
     userId |-> 2] }

\* CSV files of up to MaxRows data rows, valid or not
RowLines == {LineAlice, LineBad, LineBob, LineSpaces, LineNoName, LineLong}

RowInputs ==
  { [file |-> [mimetype |-> "text/csv", size |-> 1024, originalname |-> LeadsName,
               buffer |-> [header |-> Header, lines |-> ls]],
     userId |-> 1] : ls \in UNION { [1..n -> RowLines] : n \in 0..MaxRows } }

AliceLead ==
  [name |-> <<"A", "l">>, phone |-> <<"+", "1", "4">>, email |-> <<"a", "@", "x", ".", "i", "o">>,
   status |-> "new", source |-> <<"w">>, assigned_to |-> NULL, image_url |-> NULL]

InitLeadStores == { EmptyBag, SetToBag({AliceLead}) }

\* the rows the validator passes on for a file of one line: one or none
RowsOf(line) == ParseAndValidate([header |-> Header, lines |-> <<line>>]).rows

\* the rows a client hands to bulkCreate: valid rows, no row twice
BulkRows == UNION { {RowsOf(l)[i] : i \in 1..Len(RowsOf(l))} : l \in {LineAlice, LineBob, LineCarol, LineSpaces} }

BulkRowLists ==
  { rows \in UNION { [1..n -> BulkRows] : n \in 0..MaxRows } :
      \A i, k \in 1..Len(rows) : rows[i] = rows[k] => i = k }

\* the lists a client may hand to bulkCreate: valid rows, a row may repeat
AnyRowLists == UNION { [1..n -> BulkRows] : n \in 0..MaxRows }

----------------------------------------------------------------------------
(* State *)

VARIABLES
  now,       \* the last value Date.now() returned
  upload,    \* the calls of uploadCsvForProcessing: position and locals
  s3,        \* the CSV bucket: key -> body
  csvLogs,   \* the CsvLog collection: _id -> document
  queue,     \* the SQS queue: messages, visible or in flight
  sent,      \* number of messages ever sent (the next message id)
  faults,    \* number of faults so far: rejected calls, crashes, early redeliveries
  leads,     \* the leads table: the bag of its rows
  worker,    \* the CsvProcessor workers: position and locals
  acked,     \* history: the deletions, with what the deleting attempt did
  bulkWrites, \* history: per job, the bulk writes executed for it
  leads0,    \* history: the leads table at the start
  response,  \* the outcome of the last call of getCsvStatus
  callTasks, \* the call_tasks table: id -> row
  call,      \* the calls of CallTaskService: position and locals
  bulkCall,  \* a client of LeadModel.bulkCreate: its rows and the counts returned
  isRunning, \* CsvProcessor.isRunning
  stopped    \* history: the poll loops that were active when stop() was called

vars == <<now, upload, s3, csvLogs, queue, sent, faults, leads, worker, acked, bulkWrites, leads0,
         response, callTasks, call, bulkCall, isRunning, stopped>>

\* a Date or a duration stored in a document: only whether it is set
SET == "SET"

NewUpload == [pc |-> "new", file |-> NoFile, userId |-> 0, key |-> NoKey, result |-> "none"]

IdleWorker ==
  [pc |-> "poll", msg |-> NoMsg, rows |-> <<>>, errors |-> <<>>,
   successfulImports |-> 0, err |-> "none", wrote |-> "none"]

\* a request parameter naming a job: 24 hex digits (an ObjectId) or not
NoParam == [hex |-> TRUE, n |-> 0]

NoResponse == [asked |-> FALSE, param |-> NoParam, error |-> "none", data |-> {}]

NoIdempotencyKey == [given |-> FALSE, n |-> 0]

IdleCall ==
  [pc |-> "idle", op |-> "none", lead_id |-> 0, agent_id |-> 0, taskId |-> 0,
   idempotencyKey |-> NoIdempotencyKey, found |-> {}, result |-> "none", returned |-> {}]

NoBulkCall == [rows |-> <<>>, results |-> <<>>]

\* the state after construction, but for the client of bulkCreate
Started ==
  /\ now = 0
  /\ upload = [r \in Uploads |-> NewUpload]
  /\ s3 = <<>>
  /\ csvLogs = <<>>
  /\ queue = {}
  /\ sent = 0
  /\ faults = 0
  /\ leads \in InitLeadStores
  /\ worker = [w \in Workers |-> IdleWorker]
  /\ acked = {}
  /\ bulkWrites = [j \in Uploads |-> 0]
  /\ leads0 = leads
  /\ response = NoResponse
  /\ callTasks = <<>>
  /\ call = [c \in Callers |-> IdleCall]
  /\ isRunning = TRUE
  /\ stopped = {}

Init == Started /\ bulkCall = NoBulkCall

----------------------------------------------------------------------------
(* The stores *)

\* mutant: CsvLog.updateMany({}, { $set: set }): every document is written
UpdateMany(logs, id, set) ==
  [k \in DOMAIN logs |-> [f \in DOMAIN logs[k] |-> IF f \in DOMAIN set THEN set[f] ELSE logs[k][f]]]

\* CsvLog.updateOne({ _id: id }, { $set: set }): no document, no change
UpdateOne(logs, id, set) ==
  IF id \in DOMAIN logs
  THEN [logs EXCEPT ![id] = [f \in DOMAIN logs[id] |-> IF f \in DOMAIN set THEN set[f] ELSE logs[id][f]]]
  ELSE logs

\* CsvLog.create({...}) with the schema's defaults for the fields left out
NewCsvLog(fileName, key, userId) ==
  [file_name |-> fileName,
   s3_key |-> key,
   upload_user_id |-> userId,
   status |-> "pending",
   total_rows |-> 0,
   successful_imports |-> 0,
   failed_imports |-> 0,
   validation_errors |-> <<>>,
   error_report |-> NULL,
   processing_time_ms |-> NULL,
   started_at |-> NULL,
   created_at |-> SET,
   completed_at |-> NULL]

\* sendToProcessingQueue: one message whose body is the job descriptor
SendMessage(q, id, data) ==
  q \cup {[id |-> id, body |-> data, visible |-> TRUE]}

----------------------------------------------------------------------------
(* CsvService.uploadCsvForProcessing *)

\* mutant: the ceiling itself is refused
SizeOkStrict(size) == size < MaxFileSize

SizeOk(size) == ~(size > MaxFileSize)

MimeOk(mimetype) == mimetype = "text/csv" \/ mimetype = "application/vnd.ms-excel"

\* lines 36-47: the two checks, then the key from Date.now(), which has not
\* gone back since it was last read; requests are numbered in the order
\* they arrive
UploadCall(r, inputs) ==
  /\ upload[r].pc = "new"
  /\ \A q \in 1..(r - 1) : upload[q].pc # "new"
  /\ \E in \in inputs :
       IF ~MimeOk(in.file.mimetype) \/ ~SizeOk(in.file.size)
       THEN /\ upload' = [upload EXCEPT ![r] =
                            [pc |-> "rejected", file |-> in.file, userId |-> in.userId,
                             key |-> NoKey, result |-> "ValidationError"]]
            /\ now' = now
       ELSE \E t \in now..MaxClock :
              /\ upload' = [upload EXCEPT ![r] =
                              [pc |-> "put", file |-> in.file, userId |-> in.userId,
                               key |-> GenerateCsvKey(in.file.originalname, t), result |-> "none"]]
              /\ now' = t
  /\ UNCHANGED <<s3, csvLogs, queue, sent, faults, leads, worker, acked, bulkWrites, leads0, response, callTasks, call, bulkCall, isRunning, stopped>>

UploadBegin(r) == UploadCall(r, UploadInputs)

\* the same call with a CSV file of any rows
UploadRows(r) == UploadCall(r, RowInputs)

\* line 50: S3Service.uploadBuffer puts the bytes under the key
UploadPut(r) ==
  /\ upload[r].pc = "put"
  /\ s3' = (upload[r].key :> upload[r].file.buffer) @@ s3
  /\ upload' = [upload EXCEPT ![r].pc = "create"]
  /\ UNCHANGED <<now, csvLogs, queue, sent, faults, leads, worker, acked, bulkWrites, leads0, response, callTasks, call, bulkCall, isRunning, stopped>>

\* mutant: the document is not created before the message is sent
UploadCreateSkipped(r) ==
  /\ upload[r].pc = "create"
  /\ upload' = [upload EXCEPT ![r].pc = "send"]
  /\ UNCHANGED <<now, s3, csvLogs, queue, sent, faults, leads, worker, acked, bulkWrites, leads0, response, callTasks, call, bulkCall, isRunning, stopped>>

\* lines 53-63: CsvLog.create; the new _id is unique (here the request's number)
UploadCreate(r) ==
  /\ upload[r].pc = "create"
  /\ csvLogs' = (r :> NewCsvLog(upload[r].file.originalname, upload[r].key, upload[r].userId)) @@ csvLogs
  /\ upload' = [upload EXCEPT ![r].pc = "send"]
  /\ UNCHANGED <<now, s3, queue, sent, faults, leads, worker, acked, bulkWrites, leads0, response, callTasks, call, bulkCall, isRunning, stopped>>

\* lines 66-78: the message is sent and the call returns
UploadSend(r) ==
  /\ upload[r].pc = "send"
  /\ queue' = SendMessage(queue, sent + 1, [csvLogId |-> r, s3Key |-> upload[r].key, userId |-> upload[r].userId])
  /\ sent' = sent + 1
  /\ upload' = [upload EXCEPT ![r].pc = "done", ![r].result = "ok"]
  /\ UNCHANGED <<now, s3, csvLogs, faults, leads, worker, acked, bulkWrites, leads0, response, callTasks, call, bulkCall, isRunning, stopped>>

\* an awaited call of the upload (S3, MongoDB, SQS) rejects: the error
\* propagates to the caller, nothing is undone
UploadThrow(r) ==
  /\ faults < MaxFaults
  /\ faults' = faults + 1
  /\ upload[r].pc \in {"put", "create", "send"}
  /\ upload' = [upload EXCEPT ![r].pc = "error", ![r].result = "Error"]
  /\ UNCHANGED <<now, s3, csvLogs, queue, sent, leads, worker, acked, bulkWrites, leads0, response, callTasks, call, bulkCall, isRunning, stopped>>

----------------------------------------------------------------------------
(* The SQS queue *)

\* ReceiveMessage hides the message for the visibility timeout and hands
\* out a receipt; it does not remove the message
ReceiveMessage(q, m) ==
  (q \ {m}) \cup {[m EXCEPT !.visible = FALSE]}

\* DeleteMessage removes the message the receipt names
DeleteMessage(q, receipt) == {m \in q : m.id # receipt}

\* the visibility timeout of a received message faults: it can be received again
\* (a fault when a worker is still handling it)
VisibilityTimeout(id) ==
  /\ \E m \in queue :
       /\ m.id = id
       /\ ~m.visible
       /\ queue' = (queue \ {m}) \cup {[m EXCEPT !.visible = TRUE]}
  /\ IF \E w \in Workers : worker[w].msg.id = id
     THEN faults < MaxFaults /\ faults' = faults + 1
     ELSE faults' = faults
  /\ UNCHANGED <<now, upload, s3, csvLogs, sent, leads, worker, acked, bulkWrites, leads0, response, callTasks, call, bulkCall, isRunning, stopped>>

----------------------------------------------------------------------------
(* CsvProcessor.pollQueue and CsvService.processCsvFile *)

JobOf(w) == worker[w].msg.body.csvLogId

\* mutant: step 2 records the start only, not the status
ProcessingSetNoStatus == [started_at |-> SET]

\* mutant: step 2 puts the job back to pending
ProcessingSetPending == [status |-> "pending", started_at |-> SET]

\* step 2, line 89
ProcessingSet == [status |-> "processing", started_at |-> SET]

\* mutant: step 7 writes the counts but not the status
CompletedSetNoStatus(rows, errors, successfulImports) ==
  [total_rows |-> Len(rows) + Len(errors),
   successful_imports |-> successfulImports,
   failed_imports |-> Len(errors),
   validation_errors |-> errors,
   processing_time_ms |-> SET,
   completed_at |-> SET]

\* mutant: total_rows leaves out the invalid rows
CompletedSetValidOnly(rows, errors, successfulImports) ==
  [status |-> "completed",
   total_rows |-> Len(rows),
   successful_imports |-> successfulImports,
   failed_imports |-> Len(errors),
   validation_errors |-> errors,
   processing_time_ms |-> SET,
   completed_at |-> SET]

\* mutant: successful_imports counts the rows handed to the bulk writer
CompletedSetAttempted(rows, errors, successfulImports) ==
  [status |-> "completed",
   total_rows |-> Len(rows) + Len(errors),
   successful_imports |-> Len(rows),
   failed_imports |-> Len(errors),
   validation_errors |-> errors,
   processing_time_ms |-> SET,
   completed_at |-> SET]

\* step 7, lines 143-156
CompletedSet(rows, errors, successfulImports) ==
  [status |-> "completed",
   total_rows |-> Len(rows) + Len(errors),
   successful_imports |-> successfulImports,
   failed_imports |-> Len(errors),
   validation_errors |-> errors,
   processing_time_ms |-> SET,
   completed_at |-> SET]

\* mutant: a failed job is put back to pending, to be tried again
FailedSetPending(err) == [status |-> "pending", error_report |-> err, completed_at |-> SET]

\* mutant: the failure cause is not recorded
FailedSetNoReport(err) == [status |-> "failed", completed_at |-> SET]

\* the catch block, lines 159-171
FailedSet(err) == [status |-> "failed", error_report |-> err, completed_at |-> SET]

\* where a call of processCsvFile goes when a step of its try block throws
Thrown(w, cause) == [worker[w] EXCEPT !.pc = "catch", !.err = cause]

\* where pollQueue goes once processCsvFile has returned: line 63
Returned(w, status) == [worker[w] EXCEPT !.pc = "delete", !.wrote = status]

\* lines 41-57: one visible message is received and parsed, and
\* processCsvFile is entered; of the idle workers the first one receives
Receive(w) ==
  /\ worker[w].pc = "poll"
  /\ \A v \in 1..(w - 1) : worker[v].pc # "poll"
  /\ \E m \in queue :
       /\ m.visible
       /\ queue' = ReceiveMessage(queue, m)
       /\ worker' = [worker EXCEPT ![w] =
                       [IdleWorker EXCEPT !.pc = "markProcessing",
                                          !.msg = [id |-> m.id, body |-> m.body]]]
  /\ UNCHANGED <<now, upload, s3, csvLogs, sent, faults, leads, acked, bulkWrites, leads0, response, callTasks, call, bulkCall, isRunning, stopped>>

\* step 2, line 89: status = processing
MarkProcessing(w) ==
  /\ worker[w].pc = "markProcessing"
  /\ csvLogs' = UpdateOne(csvLogs, JobOf(w), ProcessingSet)
  /\ worker' = [worker EXCEPT ![w].pc = "download"]
  /\ UNCHANGED <<now, upload, s3, queue, sent, faults, leads, acked, bulkWrites, leads0, response, callTasks, call, bulkCall, isRunning, stopped>>

\* mutant: a row that fails validation makes the parse step throw
DownloadStrict(w) ==
  /\ worker[w].pc = "download"
  /\ LET key == worker[w].msg.body.s3Key IN
       IF key \in DOMAIN s3 /\ ParseAndValidate(s3[key]).errors = <<>>
       THEN LET parsed == ParseAndValidate(s3[key]) IN
              worker' = [worker EXCEPT ![w].pc = "bulkCreate",
                                       ![w].rows = parsed.rows,
                                       ![w].errors = parsed.errors]
       ELSE worker' = [worker EXCEPT ![w] = Thrown(w, "Failed to download CSV")]
  /\ UNCHANGED <<now, upload, s3, csvLogs, queue, sent, faults, leads, acked, bulkWrites, leads0, response, callTasks, call, bulkCall, isRunning, stopped>>

\* steps 3-5, lines 92-134: the staged bytes are fetched, parsed and validated
Download(w) ==
  /\ worker[w].pc = "download"
  /\ LET key == worker[w].msg.body.s3Key IN
       IF key \in DOMAIN s3
       THEN LET parsed == ParseAndValidate(s3[key]) IN
              worker' = [worker EXCEPT ![w].pc = "bulkCreate",
                                       ![w].rows = parsed.rows,
                                       ![w].errors = parsed.errors]
       ELSE worker' = [worker EXCEPT ![w] = Thrown(w, "Failed to download CSV")]
  /\ UNCHANGED <<now, upload, s3, csvLogs, queue, sent, faults, leads, acked, bulkWrites, leads0, response, callTasks, call, bulkCall, isRunning, stopped>>

\* step 6, line 138: LeadModel.bulkCreate(rows)
BulkWrite(w) ==
  /\ worker[w].pc = "bulkCreate"
  /\ LET res == BulkCreate(leads, worker[w].rows) IN
       /\ leads' = res.store
       /\ worker' = [worker EXCEPT ![w].pc = "finalWrite",
                                   ![w].successfulImports = res.affectedRows]
  /\ bulkWrites' = [bulkWrites EXCEPT ![JobOf(w)] = @ + 1]
  /\ UNCHANGED <<now, upload, s3, csvLogs, queue, sent, faults, acked, leads0, response, callTasks, call, bulkCall, isRunning, stopped>>

\* mutant: the final counts are added to the document's counts ($inc)
FinalWriteAdding(w) ==
  /\ worker[w].pc = "finalWrite"
  /\ LET old == csvLogs[JobOf(w)]
         set == CompletedSet(worker[w].rows, worker[w].errors, worker[w].successfulImports)
     IN csvLogs' = UpdateOne(csvLogs, JobOf(w),
                             [set EXCEPT !.total_rows = old.total_rows + @,
                                         !.successful_imports = old.successful_imports + @,
                                         !.failed_imports = old.failed_imports + @])
  /\ worker' = [worker EXCEPT ![w] = Returned(w, "completed")]
  /\ UNCHANGED <<now, upload, s3, queue, sent, faults, leads, acked, bulkWrites, leads0, response, callTasks, call, bulkCall, isRunning, stopped>>

\* step 7, lines 140-158: the final counts and status = completed
FinalWrite(w) ==
  /\ worker[w].pc = "finalWrite"
  /\ csvLogs' = UpdateOne(csvLogs, JobOf(w),
                          CompletedSet(worker[w].rows, worker[w].errors,
                                       worker[w].successfulImports))
  /\ worker' = [worker EXCEPT ![w] = Returned(w, "completed")]
  /\ UNCHANGED <<now, upload, s3, queue, sent, faults, leads, acked, bulkWrites, leads0, response, callTasks, call, bulkCall, isRunning, stopped>>

\* an awaited call of steps 2-7 rejects (the status store, the download, the
\* parser, MySQL): control passes to the catch block
StepThrows(w) ==
  /\ faults < MaxFaults
  /\ faults' = faults + 1
  /\ worker[w].pc \in {"markProcessing", "download", "bulkCreate", "finalWrite"}
  /\ worker' = [worker EXCEPT ![w] =
                  Thrown(w, CASE worker[w].pc = "markProcessing" -> "status store unavailable"
                              [] worker[w].pc = "download" -> "Failed to download CSV"
                              [] worker[w].pc = "bulkCreate" -> "lead store unavailable"
                              [] OTHER -> "status store unavailable")]
  /\ UNCHANGED <<now, upload, s3, csvLogs, queue, sent, leads, acked, bulkWrites, leads0, response, callTasks, call, bulkCall, isRunning, stopped>>

\* the catch block, lines 159-171: status = failed; processCsvFile returns
CatchWrite(w) ==
  /\ worker[w].pc = "catch"
  /\ csvLogs' = UpdateOne(csvLogs, JobOf(w), FailedSet(worker[w].err))
  /\ worker' = [worker EXCEPT ![w] = Returned(w, "failed")]
  /\ UNCHANGED <<now, upload, s3, queue, sent, faults, leads, acked, bulkWrites, leads0, response, callTasks, call, bulkCall, isRunning, stopped>>

\* mutant: the error of the catch block's write leaves pollQueue as well and
\* reaches the catch of start(), which backs off
CatchThrowsEscaping(w) ==
  /\ faults < MaxFaults
  /\ faults' = faults + 1
  /\ worker[w].pc = "catch"
  /\ worker' = [worker EXCEPT ![w] = [IdleWorker EXCEPT !.pc = "sleep"]]
  /\ UNCHANGED <<now, upload, s3, csvLogs, queue, sent, leads, acked, bulkWrites, leads0, response, callTasks, call, bulkCall, isRunning, stopped>>

\* the write of the catch block rejects too: the error leaves processCsvFile
\* and is caught and logged at lines 66-69; the worker polls again
CatchThrows(w) ==
  /\ faults < MaxFaults
  /\ faults' = faults + 1
  /\ worker[w].pc = "catch"
  /\ worker' = [worker EXCEPT ![w] = IdleWorker]
  /\ UNCHANGED <<now, upload, s3, csvLogs, queue, sent, leads, acked, bulkWrites, leads0, response, callTasks, call, bulkCall, isRunning, stopped>>

\* line 63: deleteMessage(message.ReceiptHandle)
Delete(w) ==
  /\ worker[w].pc = "delete"
  /\ queue' = DeleteMessage(queue, worker[w].msg.id)
  /\ acked' = IF queue' # queue
              THEN acked \cup {[csvLogId |-> JobOf(w), wrote |-> worker[w].wrote, err |-> worker[w].err]}
              ELSE acked
  /\ worker' = [worker EXCEPT ![w] = IdleWorker]
  /\ UNCHANGED <<now, upload, s3, csvLogs, sent, faults, leads, bulkWrites, leads0, response, callTasks, call, bulkCall, isRunning, stopped>>

\* deleteMessage rejects: caught and logged at lines 66-69
DeleteThrows(w) ==
  /\ faults < MaxFaults
  /\ faults' = faults + 1
  /\ worker[w].pc = "delete"
  /\ worker' = [worker EXCEPT ![w] = IdleWorker]
  /\ UNCHANGED <<now, upload, s3, csvLogs, queue, sent, leads, acked, bulkWrites, leads0, response, callTasks, call, bulkCall, isRunning, stopped>>

\* the worker process dies while it handles a message and is started again;
\* the message stays in flight
Crash(w) ==
  /\ faults < MaxFaults
  /\ faults' = faults + 1
  /\ worker[w].pc # "poll"
  /\ worker' = [worker EXCEPT ![w] = IdleWorker]
  /\ UNCHANGED <<now, upload, s3, csvLogs, queue, sent, leads, acked, bulkWrites, leads0, response, callTasks, call, bulkCall, isRunning, stopped>>

----------------------------------------------------------------------------
(* CsvProcessor.start, CsvProcessor.stop and the poll loop, in one process:
   worker[w] is the w-th call of start(); pc = "poll" is the head of the
   while loop, pc = "receiving" the awaited ReceiveMessage of pollQueue *)

NotStarted == [IdleWorker EXCEPT !.pc = "notStarted"]

\* the calls of start() whose poll loop has begun and not ended
ActiveLoops == {w \in Workers : worker[w].pc \notin {"notStarted", "returned", "exited"}}

\* the pcs between the receipt of a message and the end of its handling
Handling == {"markProcessing", "download", "bulkCreate", "finalWrite", "catch", "delete"}

\* lines 11-21: start() returns at once when the flag is set; else it sets
\* the flag, connects and reaches the head of the loop
Start(w) ==
  /\ worker[w].pc = "notStarted"
  /\ \A v \in 1..(w - 1) : worker[v].pc # "notStarted"
  /\ IF isRunning
     THEN /\ worker' = [worker EXCEPT ![w].pc = "returned"]
          /\ isRunning' = isRunning
     ELSE /\ isRunning' = TRUE
          /\ worker' = [worker EXCEPT ![w] = IdleWorker]
  /\ UNCHANGED <<now, upload, s3, csvLogs, queue, sent, faults, leads, acked, bulkWrites, leads0, response, callTasks, call, bulkCall, stopped>>

\* lines 35-38: stop() clears the flag and nothing else
Stop ==
  /\ isRunning' = FALSE
  /\ stopped' = stopped \cup ActiveLoops
  /\ UNCHANGED <<now, upload, s3, csvLogs, queue, sent, faults, leads, worker, acked, bulkWrites, leads0, response, callTasks, call, bulkCall>>

\* lines 95-105: the handler of SIGINT and SIGTERM calls stop() and then
\* process.exit(0): every loop of the process ends where it is
Shutdown ==
  /\ ActiveLoops # {}
  /\ isRunning' = FALSE
  /\ stopped' = stopped \cup ActiveLoops
  /\ worker' = [w \in Workers |-> IF w \in ActiveLoops THEN [IdleWorker EXCEPT !.pc = "exited"]
                                  ELSE worker[w]]
  /\ UNCHANGED <<now, upload, s3, csvLogs, queue, sent, faults, leads, acked, bulkWrites, leads0, response, callTasks, call, bulkCall>>

\* line 24: the loop condition is false; start() returns
LoopExit(w) ==
  /\ worker[w].pc = "poll"
  /\ ~isRunning
  /\ worker' = [worker EXCEPT ![w].pc = "returned"]
  /\ UNCHANGED <<now, upload, s3, csvLogs, queue, sent, faults, leads, acked, bulkWrites, leads0, response, callTasks, call, bulkCall, isRunning, stopped>>

\* lines 24-48: the loop condition is true; pollQueue sends ReceiveMessage
\* (MaxNumberOfMessages: 1) and awaits the answer
Poll(w) ==
  /\ worker[w].pc = "poll"
  /\ isRunning
  /\ worker' = [worker EXCEPT ![w].pc = "receiving"]
  /\ UNCHANGED <<now, upload, s3, csvLogs, queue, sent, faults, leads, acked, bulkWrites, leads0, response, callTasks, call, bulkCall, isRunning, stopped>>

\* lines 48-57: the answer holds one message; it is parsed and
\* processCsvFile is entered
PollReceives(w) ==
  /\ worker[w].pc = "receiving"
  /\ \E m \in queue :
       /\ m.visible
       /\ queue' = ReceiveMessage(queue, m)
       /\ worker' = [worker EXCEPT ![w] =
                       [IdleWorker EXCEPT !.pc = "markProcessing",
                                          !.msg = [id |-> m.id, body |-> m.body]]]
  /\ UNCHANGED <<now, upload, s3, csvLogs, sent, faults, leads, acked, bulkWrites, leads0, response, callTasks, call, bulkCall, isRunning, stopped>>

\* lines 50-52: the answer holds no message; pollQueue returns
PollEmpty(w) ==
  /\ worker[w].pc = "receiving"
  /\ worker' = [worker EXCEPT ![w].pc = "poll"]
  /\ UNCHANGED <<now, upload, s3, csvLogs, queue, sent, faults, leads, acked, bulkWrites, leads0, response, callTasks, call, bulkCall, isRunning, stopped>>

\* mutant: a rejected ReceiveMessage is followed by the next poll at once
PollThrowsNoBackOff(w) ==
  /\ faults < MaxFaults
  /\ faults' = faults + 1
  /\ worker[w].pc = "receiving"
  /\ worker' = [worker EXCEPT ![w].pc = "poll"]
  /\ UNCHANGED <<now, upload, s3, csvLogs, queue, sent, leads, acked, bulkWrites, leads0, response, callTasks, call, bulkCall, isRunning, stopped>>

\* line 48 rejects: the error leaves pollQueue and is caught at lines 27-30,
\* where sleep(5000) is awaited
PollThrows(w) ==
  /\ faults < MaxFaults
  /\ faults' = faults + 1
  /\ worker[w].pc = "receiving"
  /\ worker' = [worker EXCEPT ![w].pc = "sleep"]
  /\ UNCHANGED <<now, upload, s3, csvLogs, queue, sent, leads, acked, bulkWrites, leads0, response, callTasks, call, bulkCall, isRunning, stopped>>

\* lines 30 and 82-84: the timer of sleep(5000) fires; back to the loop head
Slept(w) ==
  /\ worker[w].pc = "sleep"
  /\ worker' = [worker EXCEPT ![w].pc = "poll"]
  /\ UNCHANGED <<now, upload, s3, csvLogs, queue, sent, faults, leads, acked, bulkWrites, leads0, response, callTasks, call, bulkCall, isRunning, stopped>>

----------------------------------------------------------------------------
(* CsvService.getCsvStatus *)

\* the ids a client may ask about: the ObjectIds of jobs, made or not, and a
\* string that is no ObjectId
StatusParams == { [hex |-> TRUE, n |-> j] : j \in Uploads } \cup { [hex |-> FALSE, n |-> 0] }

\* CsvLog.findById(id): the id is cast to an ObjectId, which fails for a
\* string that is none; else the document with that _id, if there is one
FindById(logs, id) ==
  IF ~id.hex THEN [error |-> "CastError", docs |-> {}]
  ELSE [error |-> "none", docs |-> IF id.n \in DOMAIN logs THEN {logs[id.n]} ELSE {}]

\* lines 213-225: the fields returned
StatusView(id, csvLog) ==
  [id |-> id.n,
   file_name |-> csvLog.file_name,
   status |-> csvLog.status,
   total_rows |-> csvLog.total_rows,
   successful_imports |-> csvLog.successful_imports,
   failed_imports |-> csvLog.failed_imports,
   validation_errors |-> csvLog.validation_errors,
   processing_time_ms |-> csvLog.processing_time_ms,
   created_at |-> csvLog.created_at,
   completed_at |-> csvLog.completed_at]

\* lines 196-226
GetCsvStatus ==
  /\ \E csvLogId \in StatusParams :
       LET found == FindById(csvLogs, csvLogId) IN
         response' =
           IF found.error # "none"
           THEN [asked |-> TRUE, param |-> csvLogId, error |-> found.error, data |-> {}]
           ELSE IF found.docs = {}
           THEN [asked |-> TRUE, param |-> csvLogId, error |-> "ValidationError", data |-> {}]
           ELSE [asked |-> TRUE, param |-> csvLogId, error |-> "none",
                 data |-> {StatusView(csvLogId, csvLog) : csvLog \in found.docs}]
  /\ UNCHANGED <<now, upload, s3, csvLogs, queue, sent, faults, leads, worker, acked, bulkWrites, leads0, callTasks, call, bulkCall, isRunning, stopped>>

----------------------------------------------------------------------------
(* CallTaskModel and CallTaskService: create, complete, mark as missed *)

\* the ids of the rows in the leads and the users table
KnownLeads == {1}
KnownAgents == {1, 2}

\* what callers send: a lead, an agent, an idempotency key or none, a task id
LeadIdsAsked == {1, 2}
AgentIdsAsked == {1, 2}
KeysAsked == { [given |-> TRUE, n |-> 1], NoIdempotencyKey }
TaskIdsAsked == 1..2

\* uuidv4(): a key no other call has
Uuid(c) == [given |-> FALSE, n |-> c]

\* the row INSERT INTO call_tasks (lead_id, agent_id, scheduled_at,
\* idempotency_key) makes, with the table's defaults
NewCallTask(id, lead_id, agent_id, key) ==
  [id |-> id, lead_id |-> lead_id, agent_id |-> agent_id, status |-> "pending",
   notes |-> NULL, outcome |-> NULL, completed_at |-> NULL, idempotency_key |-> key]

\* mutant: the table has no unique index on idempotency_key
InsertCallTaskNoUnique(tasks, lead_id, agent_id, key) ==
  LET id == Cardinality(DOMAIN tasks) + 1
  IN [error |-> "none", insertId |-> id,
      tasks |-> (id :> NewCallTask(id, lead_id, agent_id, key)) @@ tasks]

\* CallTaskModel.create, lines 19-24: the INSERT, refused with ER_DUP_ENTRY
\* when a row has the key (idempotency_key ... UNIQUE NOT NULL)
InsertCallTask(tasks, lead_id, agent_id, key) ==
  IF \E t \in DOMAIN tasks : tasks[t].idempotency_key = key
  THEN [error |-> "ER_DUP_ENTRY", insertId |-> 0, tasks |-> tasks]
  ELSE LET id == Cardinality(DOMAIN tasks) + 1
       IN [error |-> "none", insertId |-> id,
           tasks |-> (id :> NewCallTask(id, lead_id, agent_id, key)) @@ tasks]

\* CallTaskModel.findById: SELECT * FROM call_tasks WHERE id = ?
FindTaskById(tasks, id) == IF id \in DOMAIN tasks THEN {tasks[id]} ELSE {}

\* mutant: the UPDATE does not ask for status = pending
CompleteAnyStatus(tasks, id, agentId, notes, outcome) ==
  IF id \in DOMAIN tasks /\ tasks[id].agent_id = agentId
  THEN [affectedRows |-> 1,
        tasks |-> [tasks EXCEPT ![id].status = "completed", ![id].notes = notes,
                                ![id].outcome = outcome, ![id].completed_at = SET]]
  ELSE [affectedRows |-> 0, tasks |-> tasks]

\* CallTaskModel.complete: UPDATE ... WHERE id = ? AND agent_id = ? AND status = 'pending'
Complete(tasks, id, agentId, notes, outcome) ==
  IF id \in DOMAIN tasks /\ tasks[id].agent_id = agentId /\ tasks[id].status = "pending"
  THEN [affectedRows |-> 1,
        tasks |-> [tasks EXCEPT ![id].status = "completed", ![id].notes = notes,
                                ![id].outcome = outcome, ![id].completed_at = SET]]
  ELSE [affectedRows |-> 0, tasks |-> tasks]

\* CallTaskModel.markAsMissed: UPDATE ... WHERE id = ? AND status = 'pending'
MarkAsMissed(tasks, id) ==
  IF id \in DOMAIN tasks /\ tasks[id].status = "pending"
  THEN [affectedRows |-> 1,
        tasks |-> [tasks EXCEPT ![id].status = "missed", ![id].completed_at = SET]]
  ELSE [affectedRows |-> 0, tasks |-> tasks]

\* where a call of the service ends
Ended(c, result, returned) ==
  [call[c] EXCEPT !.pc = "done", !.result = result, !.returned = returned]

\* createCallTask, lines 23-36: the lead and the agent are looked up, the key
\* is the caller's or a new uuid; calls are numbered in the order they arrive
CreateCallTask(c) ==
  /\ call[c].pc = "idle"
  /\ \A b \in 1..(c - 1) : call[b].pc # "idle"
  /\ \E lead_id \in LeadIdsAsked, agent_id \in AgentIdsAsked, key \in KeysAsked :
       LET begun == [call[c] EXCEPT !.op = "create", !.lead_id = lead_id, !.agent_id = agent_id,
                                    !.idempotencyKey = IF key.given THEN key ELSE Uuid(c)]
       IN call' = [call EXCEPT ![c] =
                     IF lead_id \notin KnownLeads \/ agent_id \notin KnownAgents
                     THEN [begun EXCEPT !.pc = "done", !.result = "NotFoundError"]
                     ELSE [begun EXCEPT !.pc = "insert"]]
  /\ UNCHANGED <<now, upload, s3, csvLogs, queue, sent, faults, leads, worker, acked, bulkWrites, leads0, response, callTasks, bulkCall, isRunning, stopped>>

\* CallTaskModel.create, lines 18-26: the INSERT
CreateInsert(c) ==
  /\ call[c].pc = "insert"
  /\ LET res == InsertCallTask(callTasks, call[c].lead_id, call[c].agent_id, call[c].idempotencyKey) IN
       /\ callTasks' = res.tasks
       /\ call' = [call EXCEPT ![c] =
                     IF res.error = "none"
                     THEN [call[c] EXCEPT !.pc = "fetch", !.taskId = res.insertId]
                     ELSE [call[c] EXCEPT !.pc = "selectExisting"]]
  /\ UNCHANGED <<now, upload, s3, csvLogs, queue, sent, faults, leads, worker, acked, bulkWrites, leads0, response, bulkCall, isRunning, stopped>>

\* CallTaskModel.create, lines 26-33: after ER_DUP_ENTRY the id of the row
\* that has the key
CreateSelectExisting(c) ==
  /\ call[c].pc = "selectExisting"
  /\ \E t \in DOMAIN callTasks :
       /\ callTasks[t].idempotency_key = call[c].idempotencyKey
       /\ call' = [call EXCEPT ![c].pc = "fetch", ![c].taskId = t]
  /\ UNCHANGED <<now, upload, s3, csvLogs, queue, sent, faults, leads, worker, acked, bulkWrites, leads0, response, callTasks, bulkCall, isRunning, stopped>>

\* createCallTask, lines 42-57: the task is read back and returned
CreateFetch(c) ==
  /\ call[c].pc = "fetch"
  /\ LET task == FindTaskById(callTasks, call[c].taskId) IN
       call' = [call EXCEPT ![c] = IF task = {} THEN Ended(c, "Error", {}) ELSE Ended(c, "ok", task)]
  /\ UNCHANGED <<now, upload, s3, csvLogs, queue, sent, faults, leads, worker, acked, bulkWrites, leads0, response, callTasks, bulkCall, isRunning, stopped>>

\* completeCallTask, lines 69-83: the task is read and checked
CompleteCallTask(c) ==
  /\ call[c].pc = "idle"
  /\ \A b \in 1..(c - 1) : call[b].pc # "idle"
  /\ \E taskId \in TaskIdsAsked, agentId \in AgentIdsAsked :
       LET task == FindTaskById(callTasks, taskId)
           begun == [call[c] EXCEPT !.op = "complete", !.taskId = taskId, !.agent_id = agentId, !.found = task]
       IN call' = [call EXCEPT ![c] =
                     IF task = {} THEN [begun EXCEPT !.pc = "done", !.result = "NotFoundError"]
                     ELSE IF \E t \in task : t.agent_id # agentId
                     THEN [begun EXCEPT !.pc = "done", !.result = "ForbiddenError"]
                     ELSE IF \E t \in task : t.status # "pending"
                     THEN [begun EXCEPT !.pc = "done", !.result = "ValidationError"]
                     ELSE [begun EXCEPT !.pc = "complete"]]
  /\ UNCHANGED <<now, upload, s3, csvLogs, queue, sent, faults, leads, worker, acked, bulkWrites, leads0, response, callTasks, bulkCall, isRunning, stopped>>

\* completeCallTask, lines 86-116: the UPDATE, then the task read back
CompleteUpdate(c) ==
  /\ call[c].pc = "complete"
  /\ LET res == Complete(callTasks, call[c].taskId, call[c].agent_id, "called", "interested") IN
       /\ callTasks' = res.tasks
       /\ call' = [call EXCEPT ![c] =
                     IF res.affectedRows > 0
                     THEN Ended(c, "ok", FindTaskById(res.tasks, call[c].taskId))
                     ELSE Ended(c, "Error", {})]
  /\ UNCHANGED <<now, upload, s3, csvLogs, queue, sent, faults, leads, worker, acked, bulkWrites, leads0, response, bulkCall, isRunning, stopped>>

\* markTaskAsMissed, lines 123-130: the task is read and checked
MarkTaskAsMissed(c) ==
  /\ call[c].pc = "idle"
  /\ \A b \in 1..(c - 1) : call[b].pc # "idle"
  /\ \E taskId \in TaskIdsAsked :
       LET task == FindTaskById(callTasks, taskId)
           begun == [call[c] EXCEPT !.op = "miss", !.taskId = taskId, !.found = task]
       IN call' = [call EXCEPT ![c] =
                     IF task = {} THEN [begun EXCEPT !.pc = "done", !.result = "NotFoundError"]
                     ELSE IF \E t \in task : t.status # "pending"
                     THEN [begun EXCEPT !.pc = "done", !.result = "ValidationError"]
                     ELSE [begun EXCEPT !.pc = "miss"]]
  /\ UNCHANGED <<now, upload, s3, csvLogs, queue, sent, faults, leads, worker, acked, bulkWrites, leads0, response, callTasks, bulkCall, isRunning, stopped>>

\* markTaskAsMissed, lines 132-151: the UPDATE, then the task read back
MissUpdate(c) ==
  /\ call[c].pc = "miss"
  /\ LET res == MarkAsMissed(callTasks, call[c].taskId) IN
       /\ callTasks' = res.tasks
       /\ call' = [call EXCEPT ![c] =
                     IF res.affectedRows > 0
                     THEN Ended(c, "ok", FindTaskById(res.tasks, call[c].taskId))
                     ELSE Ended(c, "Error", {})]
  /\ UNCHANGED <<now, upload, s3, csvLogs, queue, sent, faults, leads, worker, acked, bulkWrites, leads0, response, bulkCall, isRunning, stopped>>

\* a client calls LeadModel.bulkCreate with its rows, once more each time
BulkCreateCall ==
  /\ Len(bulkCall.results) < MaxBulkCalls
  /\ LET res == BulkCreate(leads, bulkCall.rows) IN
       /\ leads' = res.store
       /\ bulkCall' = [bulkCall EXCEPT !.results = Append(@, res.affectedRows)]
  /\ UNCHANGED <<now, upload, s3, csvLogs, queue, sent, faults, worker, acked, bulkWrites, leads0, response, callTasks, call, isRunning, stopped>>

----------------------------------------------------------------------------

(* One job: a single upload and the workers that handle its message *)

Next ==
  \/ UploadBegin(1)
  \/ UploadPut(1)
  \/ UploadCreate(1)
  \/ UploadSend(1)
  \/ UploadThrow(1)
  \/ VisibilityTimeout(1)
  \/ \E w \in Workers : Receive(w)
  \/ \E w \in Workers : MarkProcessing(w)
  \/ \E w \in Workers : Download(w)
  \/ \E w \in Workers : BulkWrite(w)
  \/ \E w \in Workers : FinalWrite(w)
  \/ \E w \in Workers : StepThrows(w)
  \/ \E w \in Workers : CatchWrite(w)
  \/ \E w \in Workers : CatchThrows(w)
  \/ \E w \in Workers : Delete(w)
  \/ \E w \in Workers : DeleteThrows(w)
  \/ \E w \in Workers : Crash(w)

Spec == Init /\ [][Next]_vars

(* The upload path alone: concurrent calls of uploadCsvForProcessing *)

NextUpload ==
  \/ \E r \in Uploads : UploadBegin(r)
  \/ \E r \in Uploads : UploadPut(r)
  \/ \E r \in Uploads : UploadCreate(r)
  \/ \E r \in Uploads : UploadSend(r)
  \/ \E r \in Uploads : UploadThrow(r)

SpecUpload == Init /\ [][NextUpload]_vars

(* Several jobs: concurrent uploads and the workers; at most MaxJointFaults
   faults, not counting a second fault inside the catch block *)

NextJobs ==
  \/ \E r \in Uploads : UploadBegin(r)
  \/ \E r \in Uploads : UploadPut(r)
  \/ \E r \in Uploads : UploadCreate(r)
  \/ \E r \in Uploads : UploadSend(r)
  \/ \E r \in Uploads : faults < MaxJointFaults /\ UploadThrow(r)
  \/ \E id \in Uploads : VisibilityTimeout(id) /\ faults' <= MaxJointFaults
  \/ \E w \in Workers : Receive(w)
  \/ \E w \in Workers : MarkProcessing(w)
  \/ \E w \in Workers : Download(w)
  \/ \E w \in Workers : BulkWrite(w)
  \/ \E w \in Workers : FinalWrite(w)
  \/ \E w \in Workers : faults < MaxJointFaults /\ StepThrows(w)
  \/ \E w \in Workers : CatchWrite(w)
  \/ \E w \in Workers : CatchThrows(w)
  \/ \E w \in Workers : Delete(w)
  \/ \E w \in Workers : faults < MaxJointFaults /\ DeleteThrows(w)
  \/ \E w \in Workers : faults < MaxJointFaults /\ Crash(w)

SpecJobs == Init /\ [][NextJobs]_vars


(* Crash and recovery: one job, no rejected calls; a worker may die while it
   handles the message, which is then received again once nobody holds it *)

NextRecovery ==
  \/ UploadBegin(1)
  \/ UploadPut(1)
  \/ UploadCreate(1)
  \/ UploadSend(1)
  \/ VisibilityTimeout(1) /\ faults' = faults
  \/ \E w \in Workers : Receive(w)
  \/ \E w \in Workers : MarkProcessing(w)
  \/ \E w \in Workers : Download(w)
  \/ \E w \in Workers : BulkWrite(w)
  \/ \E w \in Workers : FinalWrite(w)
  \/ \E w \in Workers : Delete(w)
  \/ \E w \in Workers : Crash(w)

SpecRecovery == Init /\ [][NextRecovery]_vars

(* Files of any rows: one job handled without faults *)

NextRows ==
  \/ UploadRows(1)
  \/ UploadPut(1)
  \/ UploadCreate(1)
  \/ UploadSend(1)
  \/ \E w \in Workers : Receive(w)
  \/ \E w \in Workers : MarkProcessing(w)
  \/ \E w \in Workers : Download(w)
  \/ \E w \in Workers : BulkWrite(w)
  \/ \E w \in Workers : FinalWrite(w)
  \/ \E w \in Workers : Delete(w)

SpecRows == Init /\ [][NextRows]_vars

(* Status reads while one job is handled *)

NextStatus ==
  \/ UploadBegin(1)
  \/ UploadPut(1)
  \/ UploadCreate(1)
  \/ UploadSend(1)
  \/ \E w \in Workers : Receive(w)
  \/ \E w \in Workers : MarkProcessing(w)
  \/ \E w \in Workers : Download(w)
  \/ \E w \in Workers : BulkWrite(w)
  \/ \E w \in Workers : FinalWrite(w)
  \/ \E w \in Workers : Delete(w)
  \/ GetCsvStatus

SpecStatus == Init /\ [][NextStatus]_vars

(* Call tasks: concurrent calls of CallTaskService *)

NextCalls ==
  \/ \E c \in Callers : CreateCallTask(c)
  \/ \E c \in Callers : CreateInsert(c)
  \/ \E c \in Callers : CreateSelectExisting(c)
  \/ \E c \in Callers : CreateFetch(c)
  \/ \E c \in Callers : CompleteCallTask(c)
  \/ \E c \in Callers : CompleteUpdate(c)
  \/ \E c \in Callers : MarkTaskAsMissed(c)
  \/ \E c \in Callers : MissUpdate(c)

SpecCalls == Init /\ [][NextCalls]_vars

(* The bulk writer alone: a list of valid rows written again and again *)

InitBulk == Started /\ bulkCall \in [rows : BulkRowLists, results : {<<>>}]

NextBulk == BulkCreateCall

SpecBulk == InitBulk /\ [][NextBulk]_vars

(* One worker process: calls of start() and stop(), signals, and the poll
   loops handling the message of one upload *)

InitLoop ==
  /\ now = 0
  /\ upload = [r \in Uploads |-> NewUpload]
  /\ s3 = <<>>
  /\ csvLogs = <<>>
  /\ queue = {}
  /\ sent = 0
  /\ faults = 0
  /\ leads \in InitLeadStores
  /\ worker = [w \in Workers |-> NotStarted]
  /\ acked = {}
  /\ bulkWrites = [j \in Uploads |-> 0]
  /\ leads0 = leads
  /\ response = NoResponse
  /\ callTasks = <<>>
  /\ call = [c \in Callers |-> IdleCall]
  /\ bulkCall = NoBulkCall
  /\ isRunning = FALSE
  /\ stopped = {}

Handle ==
  \/ \E w \in Workers : MarkProcessing(w)
  \/ \E w \in Workers : Download(w)
  \/ \E w \in Workers : BulkWrite(w)
  \/ \E w \in Workers : FinalWrite(w)
  \/ \E w \in Workers : StepThrows(w)
  \/ \E w \in Workers : CatchWrite(w)
  \/ \E w \in Workers : CatchThrows(w)
  \/ \E w \in Workers : Delete(w)
  \/ \E w \in Workers : DeleteThrows(w)

NextLoop ==
  \/ UploadBegin(1)
  \/ UploadPut(1)
  \/ UploadCreate(1)
  \/ UploadSend(1)
  \/ VisibilityTimeout(1)
  \/ \E w \in Workers : Start(w)
  \/ Stop
  \/ Shutdown
  \/ \E w \in Workers : LoopExit(w)
  \/ \E w \in Workers : Poll(w)
  \/ \E w \in Workers : PollReceives(w)
  \/ \E w \in Workers : PollEmpty(w)
  \/ \E w \in Workers : PollThrows(w)
  \/ \E w \in Workers : Slept(w)
  \/ Handle

SpecLoop == InitLoop /\ [][NextLoop]_vars

(* A worker that is never stopped; every awaited call of a loop is answered
   in the end and the loop takes its next step *)

NextPolling ==
  \/ UploadBegin(1)
  \/ UploadPut(1)
  \/ UploadCreate(1)
  \/ UploadSend(1)
  \/ VisibilityTimeout(1)
  \/ \E w \in Workers : Start(w)
  \/ \E w \in Workers : Poll(w)
  \/ \E w \in Workers : PollReceives(w)
  \/ \E w \in Workers : PollEmpty(w)
  \/ \E w \in Workers : PollThrows(w)
  \/ \E w \in Workers : Slept(w)
  \/ Handle

\* the steps of the loop that start(w) runs
LoopStep(w) ==
  \/ Poll(w) \/ PollReceives(w) \/ PollEmpty(w) \/ PollThrows(w) \/ Slept(w)
  \/ MarkProcessing(w) \/ Download(w) \/ BulkWrite(w) \/ FinalWrite(w) \/ StepThrows(w)
  \/ CatchWrite(w) \/ CatchThrows(w) \/ Delete(w) \/ DeleteThrows(w)

SpecPolling ==
  InitLoop /\ [][NextPolling]_vars /\ \A w \in Workers : WF_vars(LoopStep(w))

(* The bulk writer alone, on lists in which a row may occur twice *)

InitBulkAny == Started /\ bulkCall \in [rows : AnyRowLists, results : {<<>>}]

SpecBulkAny == InitBulkAny /\ [][NextBulk]_vars

(* One job, with workers that keep running: the queue delivers again a
   message that is in flight, every call is answered and a worker takes its
   next step unless the process dies *)

\* the steps of worker w
WorkerStep(w) ==
  Receive(w) \/ MarkProcessing(w) \/ Download(w) \/ BulkWrite(w) \/ FinalWrite(w) \/ Delete(w)

NextLive ==
  \/ UploadBegin(1)
  \/ UploadPut(1)
  \/ UploadCreate(1)
  \/ UploadSend(1)
  \/ VisibilityTimeout(1)
  \/ \E w \in Workers : Receive(w)
  \/ \E w \in Workers : MarkProcessing(w)
  \/ \E w \in Workers : Download(w)
  \/ \E w \in Workers : BulkWrite(w)
  \/ \E w \in Workers : FinalWrite(w)
  \/ \E w \in Workers : Delete(w)
  \/ \E w \in Workers : Crash(w)

SpecLive ==
  Init /\ [][NextLive]_vars /\ WF_vars(VisibilityTimeout(1)) /\ \A w \in Workers : WF_vars(WorkerStep(w))

----------------------------------------------------------------------------
(* Properties *)

Terminal == {"completed", "failed"}

Jobs == DOMAIN csvLogs

Holds(w, j) == worker[w].pc # "poll" /\ JobOf(w) = j

\* C1: the worker deletes a job's message only after the attempt that deletes
\* it has written the job's final status at step 7 (status = completed).
\* The code deletes it after the catch block's write of failed as well.
C1_DeleteOnlyAfterCompleted ==
  \A a \in acked : a.wrote = "completed"

\* C2: when a step of 2-7 throws while a message is handled, that attempt does
\* not delete the message. The code does: processCsvFile swallows the error.
C2_NoDeleteAfterException ==
  \A a \in acked : a.err = "none"

\* what one uncrashed run over the staged file and the initial leads writes
UncrashedRun(content, store0) ==
  LET parsed == ParseAndValidate(content)
      res == BulkCreate(store0, parsed.rows)
  IN [status |-> "completed",
      total_rows |-> Len(parsed.rows) + Len(parsed.errors),
      successful_imports |-> res.affectedRows,
      failed_imports |-> Len(parsed.errors),
      validation_errors |-> parsed.errors]

TerminalValues(log) ==
  [status |-> log.status,
   total_rows |-> log.total_rows,
   successful_imports |-> log.successful_imports,
   failed_imports |-> log.failed_imports,
   validation_errors |-> log.validation_errors]

C4_TerminalNeverChanges ==
  [][\A j \in Jobs : csvLogs[j].status \in Terminal => csvLogs'[j].status = csvLogs[j].status]_vars

\* C4 amended: a completed or failed status is changed only by a further
\* attempt at the same job (a redelivered message, an overlapping attempt):
\* to processing by its step 2, to completed by its step 7, to failed by its
\* catch block; never to pending, and by nothing else.
C4_TerminalLeftOnlyByAttempt ==
  [][\A j \in Jobs :
       (csvLogs[j].status \in Terminal /\ csvLogs'[j].status # csvLogs[j].status) =>
          \E w \in Workers :
             /\ Holds(w, j)
             /\ worker'[w] # worker[w]
             /\ \/ worker[w].pc = "markProcessing" /\ csvLogs'[j].status = "processing"
                \/ worker[w].pc = "finalWrite" /\ csvLogs'[j].status = "completed"
                \/ worker[w].pc = "catch" /\ csvLogs'[j].status = "failed"]_vars

\* a finished job has been set back to processing by a later attempt
C4_Witness ==
  \E j \in Jobs, w \in Workers :
     /\ Holds(w, j)
     /\ worker[w].pc = "download"
     /\ csvLogs[j].status = "processing"
     /\ csvLogs[j].completed_at = SET

\* C5 as claimed: whenever a job is completed or failed,
\* total_rows = successful_imports + failed_imports.
C5_CountsAddUp ==
  \A j \in Jobs :
     csvLogs[j].status \in Terminal =>
        csvLogs[j].total_rows = csvLogs[j].successful_imports + csvLogs[j].failed_imports

\* C5 amended: whenever a job is completed or failed,
\* total_rows >= successful_imports + failed_imports; the difference is the
\* number of valid rows the bulk writer skipped as duplicates.
C5_CountsAtMostTotal ==
  \A j \in Jobs :
     csvLogs[j].status \in Terminal =>
        /\ csvLogs[j].successful_imports >= 0
        /\ csvLogs[j].failed_imports >= 0
        /\ csvLogs[j].total_rows >= csvLogs[j].successful_imports + csvLogs[j].failed_imports

\* a completed job whose file had a valid row that was already stored
C5_Witness ==
  \E j \in Jobs :
     /\ csvLogs[j].status = "completed"
     /\ csvLogs[j].failed_imports > 0
     /\ csvLogs[j].total_rows > csvLogs[j].successful_imports + csvLogs[j].failed_imports

\* C6: the lead store holds at most one row per phone. The code's unique key
\* is (phone, email), and a NULL email never conflicts.
C6_OneRowPerPhone ==
  \A r1, r2 \in BagToSet(leads) :
     r1.phone = r2.phone => (r1 = r2 /\ CopiesIn(r1, leads) = 1)

\* C7: when a step of 2-7 throws, the remaining steps of that attempt are not
\* executed and the handler's next step is the write of status = failed with
\* error_report = the cause and completed_at on that job's document (it takes
\* effect unless the status store rejects this write too).
C7_ExceptionAbortsAndWritesFailed ==
  [][\A w \in Workers :
       /\ (worker[w].pc # "catch" /\ worker'[w].pc = "catch") =>
             /\ worker[w].pc \in {"markProcessing", "download", "bulkCreate", "finalWrite"}
             /\ worker'[w].err # "none"
             /\ csvLogs' = csvLogs
             /\ leads' = leads
       /\ (worker[w].pc = "catch" /\ worker'[w] # worker[w]) =>
             \/ /\ worker'[w].pc = "delete"
                /\ leads' = leads
                /\ LET j == JobOf(w) IN
                     /\ j \in Jobs
                     /\ csvLogs'[j].status = "failed"
                     /\ csvLogs'[j].error_report = worker[w].err
                     /\ csvLogs'[j].completed_at = SET
                     /\ csvLogs'[j].total_rows = csvLogs[j].total_rows
                     /\ csvLogs'[j].successful_imports = csvLogs[j].successful_imports
                     /\ csvLogs'[j].failed_imports = csvLogs[j].failed_imports
             \/ /\ worker'[w] = IdleWorker
                /\ csvLogs' = csvLogs
                /\ leads' = leads]_vars

\* the final write threw and the catch block has recorded it
C7_Witness ==
  \E w \in Workers :
     /\ worker[w].pc = "delete"
     /\ worker[w].wrote = "failed"
     /\ worker[w].rows # <<>>
     /\ csvLogs[JobOf(w)].status = "failed"
     /\ csvLogs[JobOf(w)].error_report = "status store unavailable"

CsvCompatible == {"text/csv", "application/vnd.ms-excel"}

TenMiB == 10 * 1024 * 1024

JobHistory(logs, userId) == {j \in DOMAIN logs : logs[j].upload_user_id = userId}

\* C8: an upload whose MIME type is not CSV-compatible or whose size exceeds
\* 10 MiB fails with a ValidationError and changes no store (no object, no
\* CsvLog, no message, the same job history); any other upload, one of exactly
\* 10 MiB included, is not refused.
C8_RejectedUploadCreatesNothing ==
  [][\A r \in Uploads :
       (upload[r].pc = "new" /\ upload'[r].pc # "new") =>
          LET f == upload'[r].file
              bad == f.mimetype \notin CsvCompatible \/ f.size > TenMiB
          IN /\ bad => /\ upload'[r].pc = "rejected"
                       /\ upload'[r].result = "ValidationError"
                       /\ s3' = s3
                       /\ csvLogs' = csvLogs
                       /\ queue' = queue
                       /\ JobHistory(csvLogs', upload'[r].userId) = JobHistory(csvLogs, upload'[r].userId)
             /\ ~bad => upload'[r].pc = "put"]_vars
  /\ [](\A r \in Uploads :
          upload[r].pc = "rejected" =>
             /\ r \notin Jobs
             /\ upload[r].key \notin DOMAIN s3
             /\ \A m \in queue : m.body.csvLogId # r)

\* an oversized upload was refused while an earlier job exists
C8_Witness ==
  \E r \in Uploads :
     /\ upload[r].pc = "rejected"
     /\ upload[r].file.size > TenMiB
     /\ JobHistory(csvLogs, upload[r].userId) # {}

\* C9: an upload stages the bytes, then creates the CsvLog (pending, counters
\* zero), then sends exactly one message; so every message in the queue
\* names a CsvLog that exists and a key whose object exists.
C9_MessageRefersToStagedJob ==
  /\ \A m \in queue :
        /\ m.body.csvLogId \in Jobs
        /\ m.body.s3Key \in DOMAIN s3
        /\ csvLogs[m.body.csvLogId].s3_key = m.body.s3Key
  /\ \A r \in Uploads :
        /\ upload[r].pc = "put" => (r \notin Jobs /\ \A m \in queue : m.body.csvLogId # r)
        /\ upload[r].pc = "create" =>
              /\ upload[r].key \in DOMAIN s3
              /\ r \notin Jobs
              /\ \A m \in queue : m.body.csvLogId # r
        /\ upload[r].pc = "send" =>
              /\ upload[r].key \in DOMAIN s3
              /\ r \in Jobs
              /\ csvLogs[r].status = "pending"
              /\ csvLogs[r].total_rows = 0
              /\ csvLogs[r].successful_imports = 0
              /\ csvLogs[r].failed_imports = 0
              /\ \A m \in queue : m.body.csvLogId # r
  /\ sent = Cardinality({r \in Uploads : upload[r].pc = "done"})
  /\ \A m1, m2 \in queue : m1.body.csvLogId = m2.body.csvLogId => m1.id = m2.id

\* a message waits in the queue for a job that is still pending
C9_Witness ==
  \E m \in queue :
     /\ m.visible
     /\ upload[m.body.csvLogId].pc = "done"
     /\ csvLogs[m.body.csvLogId].status = "pending"

\* C10: any two uploads are staged under distinct keys, so the object a
\* job's s3_key names holds the bytes that job uploaded. The key is the
\* millisecond and the file name only.
C10_DistinctKeys ==
  \A r, q \in Uploads :
     (r # q /\ upload[r].pc = "done" /\ upload[q].pc = "done") =>
        /\ csvLogs[r].s3_key # csvLogs[q].s3_key
        /\ s3[csvLogs[r].s3_key] = upload[r].file.buffer

\* C11: the bulk writer called twice with the same list of valid rows, none of
\* them in the store before: the first call returns the number of rows, the
\* second returns 0 and leaves the store as the first call left it; with and
\* without an email. A row without an email is inserted again (cf. C6).
C11_SecondCallAddsNothing ==
  LET rows == bulkCall.rows
      fresh == \A i \in 1..Len(rows) : LeadValues(rows[i]) \notin BagToSet(leads0)
      once == BulkCreate(leads0, rows)
  IN fresh =>
       /\ Len(bulkCall.results) >= 1 => bulkCall.results[1] = Len(rows)
       /\ Len(bulkCall.results) >= 2 =>
             /\ bulkCall.results[2] = 0
             /\ leads = once.store

\* the data rows of a file that fail csvRowSchema, by their 1-based number
InvalidRecords(content) ==
  {k \in 1..Len(content.lines) : SchemaErrors(Normalize(CsvParse(content)[k])) # <<>>}

\* the rows of a file that pass csvRowSchema, in file order
ValidRecords(content) ==
  LET recs == [k \in 1..Len(content.lines) |-> Normalize(CsvParse(content)[k])]
      valid == SelectSeq(recs, LAMBDA d : SchemaErrors(d) = <<>>)
  IN [i \in 1..Len(valid) |-> StripUnknown(valid[i])]

\* C12: a staged file that downloads and parses ends in completed, never in
\* failed, however many of its rows fail validation; every invalid row has an
\* entry in validation_errors and the valid rows are handed to the bulk writer.
C12_InvalidRowsNeverAbort ==
  /\ \A j \in Jobs : csvLogs[j].status # "failed"
  /\ \A w \in Workers :
        /\ worker[w].pc # "catch"
        /\ worker[w].pc \in {"finalWrite", "delete"} =>
              /\ bulkWrites[JobOf(w)] = 1
              /\ worker[w].rows = ValidRecords(upload[JobOf(w)].file.buffer)
        /\ worker[w].pc = "delete" =>
              LET j == JobOf(w)
                  content == upload[j].file.buffer
              IN /\ worker[w].wrote = "completed"
                 /\ csvLogs[j].status = "completed"
                 /\ {csvLogs[j].validation_errors[i].row : i \in 1..Len(csvLogs[j].validation_errors)}
                      = InvalidRecords(content)
                 /\ csvLogs[j].failed_imports = Cardinality(InvalidRecords(content))

\* a file of several rows, all of them invalid, has been processed to completed
C12_Witness ==
  \E w \in Workers :
     /\ worker[w].pc = "delete"
     /\ csvLogs[JobOf(w)].status = "completed"
     /\ csvLogs[JobOf(w)].total_rows >= 2
     /\ csvLogs[JobOf(w)].failed_imports = csvLogs[JobOf(w)].total_rows
     /\ worker[w].rows = <<>>

\* C13: the k-th data row (header excluded, first data row = 1) that fails
\* validation is recorded with row = k whatever came before it;
\* validation_errors has exactly one entry per invalid row, in file order.
C13_RowNumbering ==
  \A j \in Jobs :
     csvLogs[j].status = "completed" =>
        LET errs == csvLogs[j].validation_errors
            bad == InvalidRecords(upload[j].file.buffer)
        IN /\ Len(errs) = Cardinality(bad)
           /\ \A i \in 1..Len(errs) : errs[i].row \in bad
           /\ \A i, k \in 1..Len(errs) : i < k => errs[i].row < errs[k].row

\* a file of three data rows with an error on the second only: one entry, row 2
C13_Witness ==
  \E j \in Jobs :
     /\ csvLogs[j].status = "completed"
     /\ csvLogs[j].total_rows = 3
     /\ InvalidRecords(upload[j].file.buffer) = {2}
     /\ Len(csvLogs[j].validation_errors) = 1
     /\ csvLogs[j].validation_errors[1].row = 2

\* C16: a record whose name is missing or has a trimmed length below 2 or
\* above 255 (a name of spaces only, say) is never passed to the bulk writer.
\* The schema does not trim: a name of two spaces passes.
C16_BadNameNeverARow ==
  \A w \in Workers : \A i \in 1..Len(worker[w].rows) :
     LET row == worker[w].rows[i]
         name == IF "name" \in DOMAIN row THEN row["name"] ELSE <<>>
         solid == {k \in 1..Len(name) : name[k] \notin Whitespace}
         trimmedLength == IF solid = {} THEN 0
                          ELSE (CHOOSE k \in solid : \A h \in solid : h <= k)
                               - (CHOOSE k \in solid : \A h \in solid : h >= k) + 1
     IN trimmedLength >= 2 /\ trimmedLength <= 255

Counters(log) == <<log.total_rows, log.successful_imports, log.failed_imports>>

\* C14 as claimed: a job that is pending or processing has total_rows =
\* successful_imports = failed_imports = 0, also when the message of a
\* finished job is delivered again.
C14_CountersZeroUntilTerminal ==
  \A j \in Jobs :
     csvLogs[j].status \in {"pending", "processing"} => Counters(csvLogs[j]) = <<0, 0, 0>>

\* C14 amended: the counters are written only by step 7, together with
\* status = completed; a pending job has all three at 0, and so has a
\* processing job unless an earlier attempt at it had completed: step 2 sets
\* the status back to processing and leaves that attempt's counters.
C14_CountersZeroUntilFirstCompleted ==
  /\ [](\A j \in Jobs :
          /\ csvLogs[j].status = "pending" => Counters(csvLogs[j]) = <<0, 0, 0>>
          /\ csvLogs[j].processing_time_ms = NULL => Counters(csvLogs[j]) = <<0, 0, 0>>)
  /\ [][\A j \in Jobs :
          Counters(csvLogs'[j]) # Counters(csvLogs[j]) =>
             /\ csvLogs'[j].status = "completed"
             /\ csvLogs'[j].processing_time_ms = SET]_vars

\* a completed job was picked up again: processing, with the old counters
C14_Witness ==
  \E j \in Jobs :
     /\ csvLogs[j].status = "processing"
     /\ csvLogs[j].total_rows > 0
     /\ csvLogs[j].processing_time_ms = SET

\* C15: no step sets a job's status back to pending: once it has left
\* pending it is never pending again.
C15_NeverBackToPending ==
  [][\A j \in Jobs :
       csvLogs[j].status # "pending" => csvLogs'[j].status # "pending"]_vars

\* a further attempt starts on a job that is already completed or failed
C15_Witness ==
  \E j \in Jobs, w \in Workers :
     /\ Holds(w, j)
     /\ worker[w].pc = "markProcessing"
     /\ csvLogs[j].status \in Terminal

Forward == { <<"pending", "processing">>, <<"processing", "completed">>, <<"processing", "failed">> }

C17_StatusReadContract ==
  [](response.asked =>
       LET exists == response.param.hex /\ response.param.n \in Jobs IN
         /\ ~exists => response.error = "ValidationError" /\ response.data = {}
         /\ response.error = "none" =>
               /\ exists
               /\ \E view \in response.data : view.id = response.param.n)
  /\ [][response' # response =>
         /\ csvLogs' = csvLogs /\ queue' = queue /\ leads' = leads
         /\ response'.error = "none" =>
               \E view \in response'.data :
                  /\ view.status = csvLogs[response'.param.n].status
                  /\ <<view.total_rows, view.successful_imports, view.failed_imports>>
                       = Counters(csvLogs[response'.param.n])]_vars

Tasks == DOMAIN callTasks

\* the call has just ended, with this result
Ends(c) == call[c].pc # "done" /\ call'[c].pc = "done"

\* C18: a call task's status changes at most once. completeCallTask succeeds
\* only on a task that exists, is the caller's and is pending, markTaskAsMissed
\* only on a pending task; a call that fails leaves the task as it was; of
\* concurrent complete/miss calls on one task at most one succeeds.
C18_StatusChangesOnce ==
  /\ [](\A t \in Tasks :
          Cardinality({c \in Callers : /\ call[c].op \in {"complete", "miss"}
                                       /\ call[c].taskId = t
                                       /\ call[c].result = "ok"}) <= 1)
  /\ [][/\ \A t \in Tasks :
             /\ t \in DOMAIN callTasks'
             /\ callTasks[t].status # "pending" => callTasks'[t] = callTasks[t]
        /\ \A c \in Callers :
             (call'[c].op \in {"complete", "miss"} /\ Ends(c)) =>
                LET t == call'[c].taskId IN
                  IF call'[c].result = "ok"
                  THEN /\ t \in Tasks
                       /\ callTasks[t].status = "pending"
                       /\ call'[c].op = "complete" => callTasks[t].agent_id = call'[c].agent_id
                       /\ callTasks'[t].status = (IF call'[c].op = "complete" THEN "completed" ELSE "missed")
                       /\ call'[c].returned = {callTasks'[t]}
                  ELSE /\ callTasks' = callTasks
                       /\ call'[c].result \in {"NotFoundError", "ForbiddenError", "ValidationError", "Error"}
                       /\ \/ t \notin Tasks
                          \/ callTasks[t].status # "pending"
                          \/ call'[c].op = "complete" /\ callTasks[t].agent_id # call'[c].agent_id]_vars

\* a complete and a miss raced for one pending task: one succeeded, one failed
C18_Witness ==
  \E c1, c2 \in Callers :
     /\ call[c1].op = "complete" /\ call[c2].op = "miss"
     /\ call[c1].taskId = call[c2].taskId
     /\ call[c1].found # {} /\ call[c2].found # {}
     /\ {call[c1].result, call[c2].result} = {"ok", "Error"}

\* C19: creating a call task with an idempotency key that is in use inserts
\* nothing and returns the task that has the key; after any creates with one
\* key, one after the other or at once, exactly one task has that key.
C19_OneTaskPerKey ==
  /\ [](/\ \A t1, t2 \in Tasks :
             callTasks[t1].idempotency_key = callTasks[t2].idempotency_key => t1 = t2
        /\ \A c \in Callers :
             (call[c].op = "create" /\ call[c].pc \in {"selectExisting", "fetch", "done"}
                /\ call[c].result # "NotFoundError") =>
                /\ Cardinality({t \in Tasks : callTasks[t].idempotency_key = call[c].idempotencyKey}) = 1
                /\ call[c].pc = "done" =>
                      /\ call[c].result = "ok"
                      /\ \E task \in call[c].returned :
                            /\ task.idempotency_key = call[c].idempotencyKey
                            /\ task.id = call[c].taskId
                            /\ task.id \in Tasks)
  /\ [][\A c \in Callers :
          (call[c].pc = "insert" /\ call'[c].pc # "insert"
             /\ \E t \in Tasks : callTasks[t].idempotency_key = call[c].idempotencyKey) =>
             /\ callTasks' = callTasks
             /\ call'[c].pc = "selectExisting"]_vars

\* two creates with the same key have both returned the one task that has it
C19_Witness ==
  \E c1, c2 \in Callers :
     /\ c1 # c2
     /\ call[c1].op = "create" /\ call[c2].op = "create"
     /\ call[c1].result = "ok" /\ call[c2].result = "ok"
     /\ call[c1].idempotencyKey = call[c2].idempotencyKey
     /\ call[c1].taskId = call[c2].taskId
     /\ call[c1].agent_id # call[c2].agent_id
     /\ Cardinality(Tasks) = 1


\* C21: every completed write sets total_rows = valid rows + invalid rows,
\* failed_imports = invalid rows and successful_imports = what the bulk writer
\* returned, which is at most the number of valid rows; the values replace
\* what an earlier attempt had left in the record.
C21_CompletedWriteSetsCounts ==
  [][\A w \in Workers :
       (worker[w].pc = "finalWrite" /\ worker'[w].wrote = "completed") =>
          LET j == JobOf(w)
              content == s3[worker[w].msg.body.s3Key]
              valid == Len(ValidRecords(content))
              invalid == Cardinality(InvalidRecords(content))
          IN /\ csvLogs'[j].status = "completed"
             /\ csvLogs'[j].total_rows = valid + invalid
             /\ csvLogs'[j].failed_imports = invalid
             /\ csvLogs'[j].successful_imports = worker[w].successfulImports
             /\ csvLogs'[j].successful_imports <= valid]_vars

\* the second completed write at a job whose first one had counted two
\* imports: the record holds the second attempt's counts, 1 import of 3 rows
C21_Witness ==
  \E j \in Jobs :
     /\ csvLogs[j].status = "completed"
     /\ bulkWrites[j] = 2
     /\ leads0 = EmptyBag
     /\ csvLogs[j].total_rows = 3
     /\ csvLogs[j].failed_imports = 1
     /\ csvLogs[j].successful_imports = 1
     /\ \E w \in Workers : Holds(w, j) /\ worker[w].pc = "delete" /\ worker[w].successfulImports = 1


\* C22: a job has error_report set only if its status is failed; a job that
\* is completed or processing never carries one, also after repeated or
\* overlapping attempts of which one failed and another succeeded.
C22_ErrorReportOnlyWhenFailed ==
  \A j \in Jobs : csvLogs[j].error_report # NULL => csvLogs[j].status = "failed"


\* C23: when the failed-status write of the catch block fails itself, the
\* job's status stays as it was, the message is not deleted, the exception
\* does not leave the per-message handler and the worker is back at the head
\* of its loop, about to poll again.
C23_FailedWriteFailing ==
  [][\A w \in Workers :
       (worker[w].pc = "catch" /\ worker'[w].pc \notin {"catch", "delete", "exited"}) =>
          /\ csvLogs' = csvLogs
          /\ queue' = queue
          /\ acked' = acked
          /\ worker'[w].pc = "poll"]_vars

\* the step-3 download and then the catch block's write were rejected: the job
\* is still processing, its message is in flight and held by nobody, and the
\* loop is polling
C23_Witness ==
  /\ \A w \in Workers : worker[w].pc \in {"notStarted", "poll", "receiving"}
  /\ \E w \in Workers : worker[w].pc = "receiving"
  /\ faults = 2
  /\ 1 \in Jobs
  /\ csvLogs[1].status = "processing"
  /\ csvLogs[1].error_report = NULL
  /\ \E m \in queue : m.id = 1 /\ ~m.visible
  /\ acked = {}


\* C24: while the worker runs no single failure stops the poll loop: a failure
\* while a message is handled leads to the catch block or straight back to
\* the head of the loop, a rejected receive call leads to the back-off sleep,
\* after which the loop is at its head again, and a running loop is in a
\* poll again and again.
C24_LoopSurvivesFailures ==
  /\ [][\A w \in Workers :
          /\ (worker[w].pc \in Handling /\ faults' > faults /\ worker'[w] # worker[w]) =>
                worker'[w].pc \in {"catch", "poll"}
          /\ (worker[w].pc = "receiving" /\ faults' > faults /\ worker'[w] # worker[w]) =>
                worker'[w].pc = "sleep"
          /\ (worker[w].pc = "sleep" /\ worker'[w] # worker[w]) => worker'[w].pc = "poll"
          /\ (worker[w].pc = "poll" /\ worker'[w] # worker[w]) => worker'[w].pc = "receiving"
          /\ w \in ActiveLoops => w \in ActiveLoops']_vars
  /\ \A w \in Workers : (w \in ActiveLoops) ~> (worker[w].pc = "receiving")

\* the loop backs off after a rejected receive call, having survived a
\* failed attempt at the job before
C24_Witness ==
  \E w \in Workers :
     /\ worker[w].pc = "sleep"
     /\ faults >= 2
     /\ 1 \in Jobs
     /\ csvLogs[1].status = "failed"


\* C25: within one worker process at most one message is being handled at any
\* time and at most one poll loop runs, for any sequence of start() and
\* stop() calls, start() right after stop() included.
C25_OneMessageAtATime ==
  /\ Cardinality({w \in Workers : worker[w].pc \in Handling}) <= 1
  /\ Cardinality(ActiveLoops) <= 1


\* C26: after stop() is called, a loop that was running starts no new poll
\* once its current iteration has finished; stop() itself changes nothing of
\* the loops, so a message in flight is handled to the end.
C26_NoPollAfterStop ==
  [][/\ \A w \in stopped : ~(worker[w].pc = "poll" /\ worker'[w].pc = "receiving")
     /\ (isRunning /\ ~isRunning' /\ \A w \in Workers : worker'[w].pc # "exited") =>
           worker' = worker]_vars


\* C27: a bulk write modifies and removes no row already in the lead store;
\* it returns the number of rows it added (size after minus size before),
\* at most the number of rows passed in, also when the list holds the same
\* dedup key twice; an empty list returns 0 and leaves the store alone.
C27_BulkWriteOnlyAdds ==
  [][Len(bulkCall'.results) > Len(bulkCall.results) =>
       LET returned == bulkCall'.results[Len(bulkCall'.results)] IN
         /\ leads \sqsubseteq leads'
         /\ returned = BagCardinality(leads') - BagCardinality(leads)
         /\ returned <= Len(bulkCall.rows)
         /\ bulkCall.rows = <<>> => returned = 0 /\ leads' = leads]_vars

\* a list holding the row of one phone and email three times, written to an
\* empty store: one row added, 1 returned
C27_Witness ==
  /\ Len(bulkCall.rows) = 3
  /\ \A i \in 1..3 : bulkCall.rows[i] = bulkCall.rows[1] /\ "email" \in DOMAIN bulkCall.rows[i]
  /\ leads0 = EmptyBag
  /\ bulkCall.results = <<1>>
  /\ BagCardinality(leads) = 1


\* C28: handling a message for job J changes the record of J only: a record
\* changes only in a step of a worker that holds a message naming it, the
\* upload path and the queue change no record after its creation, and no
\* step removes a record.
C28_OnlyTheJobOfTheMessage ==
  [][\A j \in Jobs :
       /\ j \in DOMAIN csvLogs'
       /\ csvLogs'[j] # csvLogs[j] =>
             /\ \E w \in Workers :
                   /\ Holds(w, j)
                   /\ worker[w].pc \in {"markProcessing", "finalWrite", "catch"}
                   /\ worker'[w] # worker[w]
             /\ upload' = upload
             /\ queue' = queue]_vars

\* two jobs: the first has been handled to completed, the record of the
\* second is as the upload created it
C28_Witness ==
  /\ Jobs = {1, 2}
  /\ csvLogs[1].status = "completed"
  /\ csvLogs[1].total_rows > 0
  /\ csvLogs[2] = NewCsvLog(upload[2].file.originalname, upload[2].key, upload[2].userId)
  /\ \E m \in queue : m.body.csvLogId = 2


\* C29: with a worker that keeps running, a queue that delivers again what was
\* received and not deleted, and stores that answer, the job whose message is
\* on the queue is completed or failed in the end, and its message is deleted
\* in the end, also when a worker dies while handling it.
C29_EveryJobEnds ==
  /\ (\E m \in queue : m.id = 1) ~> (1 \in Jobs /\ csvLogs[1].status \in Terminal)
  /\ (\E m \in queue : m.id = 1) ~> (~\E m \in queue : m.id = 1)


\* C30: no job is stranded in pending: once the upload call has ended, a
\* pending job has a message naming it on the queue, visible or in flight,
\* and every staged object has a job record naming its key (an upload that
\* fails after the record is created, or after the bytes are staged, leaves
\* neither a pending record without a message nor an object without a record).
C30_NoStrandedPending ==
  /\ \A j \in Jobs :
        csvLogs[j].status = "pending" =>
           \/ \E m \in queue : m.body.csvLogId = j
           \/ upload[j].pc = "send"
  /\ \A k \in DOMAIN s3 :
        \/ \E j \in Jobs : csvLogs[j].s3_key = k
        \/ \E r \in Uploads : upload[r].pc = "create" /\ upload[r].key = k

====
